---- MODULE Spec2Model ----
(***************************************************************************)
(* Model of the printipi device-set container (src/src/iodrivers/          *)
(* iodrivers.h) and of the Event primitive (src/code/firmware/src/         *)
(* event.cpp).                                                             *)
(*                                                                         *)
(* A cursor (iteratorbase) is its index idx, 0-based as in the source; the *)
(* device at index idx is drivers[idx + 1].  Every container operation is  *)
(* computed as the source computes it: a range-for over begin()/end() of a *)
(* predicate view, folding a lambda.  The fold carries, next to the        *)
(* accumulated value, the sequence of calls it made on devices; an action  *)
(* applies those calls to the devices, so what an operation leaves alone   *)
(* is decided by the calls it makes.                                       *)
(***************************************************************************)
EXTENDS Integers, Sequences, FiniteSets

\* ------------------------------------------------------------------------
\* Bounds of the model
\* ------------------------------------------------------------------------
MaxDevices == 2
MaxTime == 2
MaxQueue == 1
MaxSchedQueue == 2
MaxCursorDevices == 3
MaxTieDevices == 3

VARIABLES drivers, endDispatch, ret, log, prev, pc, consumed

vars == <<drivers, endDispatch, ret, log, prev, pc, consumed>>

\* ------------------------------------------------------------------------
\* Event (event.cpp)
\* ------------------------------------------------------------------------
\* The reserved stepper id of a null event: outside every device index.
NULL_STEPPER_ID == MaxDevices + 1

\* Event::Event(t, stepperNum, dir)
Event(t, stepperNum, isForward) == [time |-> t, stepperId |-> stepperNum, isForward |-> isForward]

\* The default-constructed event.  Its time is unspecified; the model gives
\* it the smallest time there is, so that a comparison that reads it wins.
NullEvent == Event(0, NULL_STEPPER_ID, TRUE)

\* Event::isNull
isNull(e) == e.stepperId = NULL_STEPPER_ID

\* Event::stepperId
stepperId(e) == e.stepperId

\* Event::direction
direction(e) == IF e.isForward THEN "StepForward" ELSE "StepBackward"

\* Event::time, in ticks of EventClockT
time(e) == e.time

\* Event::operator<
EventLt(a, b) == a.time < b.time

\* The nanoseconds in one tick of EventClockT::duration: the clock counts
\* nanoseconds.
NanosPerTick == 1

\* std::chrono::duration_cast<EventClockT::duration>(std::chrono::nanoseconds(nsec)):
\* the whole ticks in nsec nanoseconds.
duration_cast(nsec) == nsec \div NanosPerTick

\* offset that sets the time to the duration instead of adding it.
offset_Absolute(e, d) == [e EXCEPT !.time = d]

\* Event::offset: _time += offset
offset(e, d) == [e EXCEPT !.time = @ + d]

\* Event::offsetNano
offsetNano(e, nsec) == offset(e, duration_cast(nsec))

\* ------------------------------------------------------------------------
\* Devices (external drivers, by their capability contract)
\* ------------------------------------------------------------------------
Times == 1..MaxTime

\* A device as constructed: its heater target and its fan duty are off.
Device(events, isFan, isHotend, isHeatedBed) == [events |-> events, isFan |-> isFan, isHotend |-> isHotend, isHeatedBed |-> isHeatedBed, targetTemperature |-> "TempOff", fanDutyCycle |-> "DutyOff"]

\* A device's peekNextEvent(): its first pending event, or the null event.
DevicePeek(dev, idx) == IF dev.events = <<>> THEN NullEvent ELSE Event(Head(dev.events), idx, TRUE)

\* A device's consumeNextEvent(): discards its first pending event.
DeviceConsume(dev) == IF dev.events = <<>> THEN dev ELSE [dev EXCEPT !.events = Tail(dev.events)]

\* A device's setTargetTemperature(temp): whatever the device is, it keeps
\* the target it is given.
DeviceSetTargetTemperature(dev, temp) == [dev EXCEPT !.targetTemperature = temp]

\* A device's setFanDutyCycle(duty): it keeps the duty it is given.
DeviceSetFanDutyCycle(dev, duty) == [dev EXCEPT !.fanDutyCycle = duty]

size == Len(drivers)

Indices == 0..(size - 1)

\* The one element of a singleton set: The({e(x) : x \in {v}}) is e(v), with
\* v evaluated once.
The(S) == CHOOSE x \in S : TRUE

\* One call made on the device at index idx: the capability called, its
\* argument and what the device returned.
Call(fn, idx, arg, result) == [fn |-> fn, idx |-> idx, arg |-> arg, result |-> result]

NoArg == "none"

\* The devices after one call: consumeNextEvent, setTargetTemperature and
\* setFanDutyCycle change the device they are made on, the other calls
\* change none.
ApplyCall(ds, c) ==
    IF c.idx >= Len(ds) THEN ds
    ELSE CASE c.fn = "consumeNextEvent" -> [ds EXCEPT ![c.idx + 1] = DeviceConsume(ds[c.idx + 1])]
           [] c.fn = "setTargetTemperature" -> [ds EXCEPT ![c.idx + 1] = DeviceSetTargetTemperature(ds[c.idx + 1], c.arg)]
           [] c.fn = "setFanDutyCycle" -> [ds EXCEPT ![c.idx + 1] = DeviceSetFanDutyCycle(ds[c.idx + 1], c.arg)]
           [] OTHER -> ds

\* The devices after a sequence of calls, applied in order.
ApplyCalls(ds, calls) ==
    LET F[k \in 0..Len(calls)] == IF k = 0 THEN ds ELSE ApplyCall(F[k - 1], calls[k])
    IN F[Len(calls)]

\* ------------------------------------------------------------------------
\* Predicates (iodrivers.h 50-69, 96-110) and the capability dispatch
\* ------------------------------------------------------------------------
NoPredicate == <<"NoPredicate">>
GenericIsFan == <<"IsFan">>
GenericIsHotend == <<"IsHotend">>
GenericIsHeatedBed == <<"IsHeatedBed">>
Union(PredA, PredB) == <<"Union", PredA, PredB>>
Intersection(PredA, PredB) == <<"Intersection", PredA, PredB>>

\* iteratorbase::isAtEnd
isAtEnd(idx) == idx = size

\* iteratorbase::isFan / isHotend / isHeatedBed: the capability of the
\* device at idx.  A cursor at the end index refers to no device: what the
\* dispatch yields there is not fixed by the container, and is endDispatch.
isFan(idx) == IF idx < size THEN drivers[idx + 1].isFan ELSE endDispatch
isHotend(idx) == IF idx < size THEN drivers[idx + 1].isHotend ELSE endDispatch
isHeatedBed(idx) == IF idx < size THEN drivers[idx + 1].isHeatedBed ELSE endDispatch

\* Predicate()(self): the value of predicate p for the cursor at idx.
RECURSIVE Pred(_, _)
Pred(p, idx) ==
    CASE p[1] = "NoPredicate" -> TRUE
      [] p[1] = "IsFan" -> isFan(idx)
      [] p[1] = "IsHotend" -> isHotend(idx)
      [] p[1] = "IsHeatedBed" -> isHeatedBed(idx)
      [] p[1] = "Union" -> Pred(p[2], idx) \/ Pred(p[3], idx)
      [] p[1] = "Intersection" -> Pred(p[2], idx) /\ Pred(p[3], idx)

\* ------------------------------------------------------------------------
\* iterator<Predicate> (iodrivers.h 269-293)
\* ------------------------------------------------------------------------
\* A cursor position with whether reaching it hit the assertion, and the
\* indices the predicate was evaluated at on the way.
Pos(idx, fault, evals) == [idx |-> idx, fault |-> fault, evals |-> evals]

RECURSIVE Increment(_, _, _)

\* operator++ that moves one index on without asking the predicate.
Increment_NoSkip(p, idx, evals) ==
    IF isAtEnd(idx) THEN Pos(idx, TRUE, evals)
    ELSE Pos(idx + 1, FALSE, Append(evals, idx + 1))

\* operator++ without its assertion: an end cursor moves on.
Increment_NoAssert(p, idx, evals) ==
    IF ~Pred(p, idx + 1) /\ ~isAtEnd(idx + 1) THEN Increment(p, idx + 1, Append(evals, idx + 1))
    ELSE Pos(idx + 1, FALSE, Append(evals, idx + 1))

\* operator++ that leaves the cursor where it is.
Increment_Stay(p, idx, evals) ==
    IF isAtEnd(idx) THEN Pos(idx, TRUE, evals)
    ELSE Pos(idx, FALSE, evals)

\* iterator::operator++ from idx:
\*   do { assert(!isAtEnd()); ++idx; } while (!Predicate()(*this) && !isAtEnd());
Increment(p, idx, evals) ==
    IF isAtEnd(idx) THEN Pos(idx, TRUE, evals)
    ELSE IF ~Pred(p, idx + 1) /\ ~isAtEnd(idx + 1) THEN Increment(p, idx + 1, Append(evals, idx + 1))
    ELSE Pos(idx + 1, FALSE, Append(evals, idx + 1))

\* iterator::iterator(drivers, idx, filterFirst)
Iterator(p, idx, filterFirst) ==
    IF filterFirst /\ ~Pred(p, idx) THEN Increment(p, idx, <<idx>>)
    ELSE Pos(idx, FALSE, IF filterFirst THEN <<idx>> ELSE <<>>)

\* iterator::operator+(add) from the cursor it:
\*   iterator other = *this; while (add--) { ++other; } return other;
RECURSIVE Plus(_, _, _)
Plus(p, it, add) ==
    IF add = 0 \/ it.fault THEN it
    ELSE Plus(p, Increment(p, it.idx, it.evals), add - 1)

\* iterinfo::begin
begin(p) == Iterator(p, 0, TRUE)

\* iterinfo::end
end(p) == Iterator(p, size, FALSE)

\* iterinfo::operator[]: begin() + idx
Index(p, idx) == Plus(p, begin(p), idx)

\* for (auto &d : *this): the indices visited from cursor it up to end(),
\* in order; a fault of an increment ends the walk.
RECURSIVE Walk(_, _, _)
Walk(p, it, seen) ==
    IF it.fault THEN [idxs |-> seen, fault |-> TRUE]
    ELSE IF it.idx = end(p).idx THEN [idxs |-> seen, fault |-> FALSE]
    ELSE The({Walk(p, next, Append(seen, it.idx)) : next \in {Increment(p, it.idx, <<>>)}})

RangeFor(p) == Walk(p, begin(p), <<>>)

\* ------------------------------------------------------------------------
\* iterinfo<Predicate>: reduce, any, all (iodrivers.h 296-377)
\* ------------------------------------------------------------------------
NO_SHORT_CIRCUIT == 0
DO_SHORT_CIRCUIT == 1

\* The state of a fold: the value reduced so far and the calls made on
\* devices so far.
Acc(value, calls) == [value |-> value, calls |-> calls]

\* f(d, args...) for a probe f: a function object whose call on the device
\* at index d returns f.results[d]; the call is recorded.
ProbeCall(f, d, args) == Call(f.fn, d, args, f.results[d])

\* AnyLambda that short-circuits whatever the flag says.
AnyLambda_AlwaysShort(l, reduced, d) ==
    IF reduced.value THEN reduced
    ELSE Acc(ProbeCall(l.f, d, l.args).result, Append(reduced.calls, ProbeCall(l.f, d, l.args)))

\* AnyLambda that never short-circuits.
AnyLambda_NeverShort(l, reduced, d) ==
    Acc(ProbeCall(l.f, d, l.args).result \/ reduced.value, Append(reduced.calls, ProbeCall(l.f, d, l.args)))

\* The lambda of any():
\*   (shortCircuit == DO_SHORT_CIRCUIT) ? (reduced || f(d, args...)) : (f(d, args...) || reduced)
AnyLambda(l, reduced, d) ==
    IF l.shortCircuit = DO_SHORT_CIRCUIT
    THEN IF reduced.value THEN reduced
         ELSE Acc(ProbeCall(l.f, d, l.args).result, Append(reduced.calls, ProbeCall(l.f, d, l.args)))
    ELSE Acc(ProbeCall(l.f, d, l.args).result \/ reduced.value, Append(reduced.calls, ProbeCall(l.f, d, l.args)))

\* The lambda of all():
\*   (shortCircuit == DO_SHORT_CIRCUIT) ? (reduced && f(d, args...)) : (f(d, args...) && reduced)
AllLambda(l, reduced, d) ==
    IF l.shortCircuit = DO_SHORT_CIRCUIT
    THEN IF ~reduced.value THEN reduced
         ELSE Acc(ProbeCall(l.f, d, l.args).result, Append(reduced.calls, ProbeCall(l.f, d, l.args)))
    ELSE Acc(ProbeCall(l.f, d, l.args).result /\ reduced.value, Append(reduced.calls, ProbeCall(l.f, d, l.args)))

\* iteratorbase::peekNextEvent: the peek of the device at index d.
iterPeekNextEvent(d) == DevicePeek(drivers[d + 1], d)

\* PeekLambda without the !curEvt.isNull() test: a device with nothing
\* pending can displace a pending event.
PeekLambda_NoNullTest(l, reduced, d) ==
    LET curEvt == iterPeekNextEvent(d)
        isCurEvtSooner == isNull(reduced.value.event) \/ curEvt.time < reduced.value.event.time
    IN Acc(IF isCurEvtSooner THEN [reduced.value EXCEPT !.cursor = d, !.event = curEvt] ELSE reduced.value,
           Append(reduced.calls, Call("peekNextEvent", d, NoArg, curEvt)))

\* PeekLambda that consumes the event it peeked.
PeekLambda_Consuming(l, reduced, d) ==
    LET curEvt == iterPeekNextEvent(d)
        isCurEvtSooner == isNull(reduced.value.event) \/ (~isNull(curEvt) /\ curEvt.time < reduced.value.event.time)
    IN Acc(IF isCurEvtSooner THEN [reduced.value EXCEPT !.cursor = d, !.event = curEvt] ELSE reduced.value,
           reduced.calls \o <<Call("peekNextEvent", d, NoArg, curEvt), Call("consumeNextEvent", d, NoArg, NoArg)>>)

\* PeekLambda with the comparison reversed: the later event wins.
PeekLambda_Later(l, reduced, d) ==
    LET curEvt == iterPeekNextEvent(d)
        isCurEvtSooner == isNull(reduced.value.event) \/ (~isNull(curEvt) /\ curEvt.time > reduced.value.event.time)
    IN Acc(IF isCurEvtSooner THEN [reduced.value EXCEPT !.cursor = d, !.event = curEvt] ELSE reduced.value,
           Append(reduced.calls, Call("peekNextEvent", d, NoArg, curEvt)))

\* PeekLambda with <= for <: of events at equal times the last wins.
PeekLambda_LastWins(l, reduced, d) ==
    LET curEvt == iterPeekNextEvent(d)
        isCurEvtSooner == isNull(reduced.value.event) \/ (~isNull(curEvt) /\ curEvt.time <= reduced.value.event.time)
    IN Acc(IF isCurEvtSooner THEN [reduced.value EXCEPT !.cursor = d, !.event = curEvt] ELSE reduced.value,
           Append(reduced.calls, Call("peekNextEvent", d, NoArg, curEvt)))

\* PeekLambda that compares the times before it tests for null events.
PeekLambda_CompareFirst(l, reduced, d) ==
    LET curEvt == iterPeekNextEvent(d)
        isCurEvtSooner == isNull(reduced.value.event) \/ (~isNull(curEvt) /\ curEvt.time < reduced.value.event.time)
    IN Acc([cursor |-> IF isCurEvtSooner THEN d ELSE reduced.value.cursor,
            event |-> IF isCurEvtSooner THEN curEvt ELSE reduced.value.event,
            compared |-> Append(reduced.value.compared, [cur |-> curEvt, best |-> reduced.value.event])],
           Append(reduced.calls, Call("peekNextEvent", d, NoArg, curEvt)))

\* The lambda of IODrivers::peekNextEvent:
\*   curEvt = d.peekNextEvent();
\*   isCurEvtSooner = reduced.second.isNull()
\*                    || (!curEvt.isNull() && curEvt.time() < reduced.second.time());
\*   return isCurEvtSooner ? make_pair(d, curEvt) : reduced;
\* || and && evaluate their right operand only when the left one does not
\* decide: the times are read when reduced.second is not null and curEvt is
\* not null, and compared records the two events whose times were read.
PeekLambda(l, reduced, d) ==
    LET curEvt == iterPeekNextEvent(d)
        timesRead == ~isNull(reduced.value.event) /\ ~isNull(curEvt)
        isCurEvtSooner == isNull(reduced.value.event) \/ (~isNull(curEvt) /\ curEvt.time < reduced.value.event.time)
    IN Acc([cursor |-> IF isCurEvtSooner THEN d ELSE reduced.value.cursor,
            event |-> IF isCurEvtSooner THEN curEvt ELSE reduced.value.event,
            compared |-> IF timesRead THEN Append(reduced.value.compared, [cur |-> curEvt, best |-> reduced.value.event]) ELSE reduced.value.compared],
           Append(reduced.calls, Call("peekNextEvent", d, NoArg, curEvt)))

\* An uninterpreted function object f given to reduce: f(reduced, d) is the
\* term <<"f", reduced, d>>, so the value reduce returns shows which
\* applications of f made it, and in which nesting.
TermLambda(l, reduced, d) == Acc(<<"f", reduced.value, d>>, Append(reduced.calls, Call("f", d, NoArg, NoArg)))

\* The lambda of length():
\*   [](std::size_t numSeen, const iteratorbase&) { return numSeen + 1; }
LengthLambda(l, reduced, d) == Acc(reduced.value + 1, reduced.calls)

\* f(std::move(reduced), d, args...) for the function object l given to reduce.
Lambda(l, reduced, d) ==
    CASE l.fn = "any" -> AnyLambda(l, reduced, d)
      [] l.fn = "all" -> AllLambda(l, reduced, d)
      [] l.fn = "peekNextEvent" -> PeekLambda(l, reduced, d)
      [] l.fn = "f" -> TermLambda(l, reduced, d)
      [] l.fn = "length" -> LengthLambda(l, reduced, d)

\* The body of reduce's loop from the k-th device visited on:
\*   reduced = f(std::move(reduced), d, args...);
RECURSIVE Fold(_, _, _, _)
Fold(l, reduced, idxs, k) ==
    IF k > Len(idxs) THEN reduced
    ELSE The({Fold(l, next, idxs, k + 1) : next \in {Lambda(l, reduced, idxs[k])}})

\* iterinfo::reduce: the left fold of l over the devices of view p, from
\* dflt.  fault: the walk hit the assertion and nothing is returned.
reduce(l, dflt, p) ==
    The({The({[fault |-> its.fault, value |-> reduced.value, calls |-> reduced.calls] : reduced \in {Fold(l, Acc(dflt, <<>>), its.idxs, 1)}}) : its \in {RangeFor(p)}})

\* unionWith that keeps the view it is called on.
unionWith_Left(PredA, PredB) == PredA

\* iterinfo::unionWith: the view of Union<Predicate, PredB> over the same
\* devices.
unionWith(PredA, PredB) == Union(PredA, PredB)

\* iterinfo::filter: the view of Intersection<Predicate, PredB> over the
\* same devices.
filter(PredA, PredB) == Intersection(PredA, PredB)

\* iterinfo::apply: f(d, args...) for every device d of the range-for over
\* view p; f is the capability called.
apply(p, f, args) ==
    The({[fault |-> its.fault, calls |-> [k \in 1..Len(its.idxs) |-> Call(f, its.idxs[k], args, NoArg)]] : its \in {RangeFor(p)}})

\* iterinfo::length
length(p) == reduce([fn |-> "length"], 0, p)

\* iterinfo::empty: begin() == end(), cursors of one tuple being equal when
\* their indices are.
empty(p) == [fault |-> begin(p).fault, value |-> begin(p).idx = end(p).idx]

\* iterinfo::any(f, shortCircuit, args...)
any(p, f, shortCircuit, args) == reduce([fn |-> "any", f |-> f, shortCircuit |-> shortCircuit, args |-> args], FALSE, p)

\* iterinfo::all(f, shortCircuit, args...)
all(p, f, shortCircuit, args) == reduce([fn |-> "all", f |-> f, shortCircuit |-> shortCircuit, args |-> args], TRUE, p)

\* iterinfo::any(f): the one-argument form.
anyDefault(p, f) == any(p, f, DO_SHORT_CIRCUIT, NoArg)

\* iterinfo::all(f): the one-argument form.
allDefault(p, f) == all(p, f, DO_SHORT_CIRCUIT, NoArg)

\* ------------------------------------------------------------------------
\* IODrivers: the scheduling protocol (iodrivers.h 449-460)
\* ------------------------------------------------------------------------
\* IODrivers::iter: the view of all devices.
iter == NoPredicate

\* IODrivers::fans / hotends / heatedBeds: filter(Predicate()), the view of
\* the predicate.
fans == GenericIsFan
hotends == GenericIsHotend
heatedBeds == GenericIsHeatedBed

\* IODrivers::heaters
heaters == unionWith(hotends, heatedBeds)

\* setHotendTemp applied to all devices instead of the hotends.
setHotendTemp_All(temp) == apply(iter, "setTargetTemperature", temp)

\* IODrivers::setHotendTemp
setHotendTemp(temp) == apply(hotends, "setTargetTemperature", temp)

\* IODrivers::setBedTemp
setBedTemp(temp) == apply(heatedBeds, "setTargetTemperature", temp)

\* IODrivers::setFanDutyCycle
setFanDutyCycle(duty) == apply(fans, "setFanDutyCycle", duty)

\* IODrivers::peekNextEvent
peekNextEvent == reduce([fn |-> "peekNextEvent"], [cursor |-> end(iter).idx, event |-> NullEvent, compared |-> <<>>], iter)

\* onIdleCpu that combines the handlers with all() instead of any().
onIdleCpu_All(f, interval) == all(iter, f, NO_SHORT_CIRCUIT, interval)

\* onIdleCpu that lets any() short-circuit.
onIdleCpu_ShortCircuit(f, interval) == any(iter, f, DO_SHORT_CIRCUIT, interval)

\* IODrivers::onIdleCpu(interval), GenericOnIdleCpu being the probe f.
onIdleCpu(f, interval) == any(iter, f, NO_SHORT_CIRCUIT, interval)

\* consumeNextEvent that dispatches to the first device whatever the cursor.
consumeNextEvent_First(idx) == <<Call("consumeNextEvent", 0, NoArg, NoArg)>>

\* iteratorbase::consumeNextEvent through the cursor at idx.
consumeNextEvent(idx) == <<Call("consumeNextEvent", idx, NoArg, NoArg)>>

\* ------------------------------------------------------------------------
\* Inputs
\* ------------------------------------------------------------------------
\* Sequences over S of length at most n.
SeqsUpTo(S, n) == UNION {[1..k -> S] : k \in 0..n}

IsSorted(q) == \A a, b \in 1..Len(q) : a <= b => q[a] <= q[b]

\* Capabilities a device reports: <<isFan, isHotend, isHeatedBed>>.
Plain == <<FALSE, FALSE, FALSE>>
Kinds == {Plain, <<TRUE, FALSE, FALSE>>, <<FALSE, TRUE, FALSE>>, <<FALSE, FALSE, TRUE>>, <<FALSE, TRUE, TRUE>>}

\* The device sets of at most MaxDevices devices, each with a queue of Qs
\* and capabilities of Ks.
DeviceSets(Qs, Ks) == SeqsUpTo({Device(q, k[1], k[2], k[3]) : q \in Qs, k \in Ks}, MaxDevices)

\* The idle intervals a caller passes.
Intervals == {"OnIdleCpuIntervalShort", "OnIdleCpuIntervalWide"}

\* The views the operations are called on.
Views == {NoPredicate, GenericIsFan, GenericIsHotend, GenericIsHeatedBed, heaters, Intersection(GenericIsHotend, GenericIsHeatedBed)}

\* What the next operation remembers of the one before it.
Summary(r) == IF r.op = "peekNextEvent" THEN r ELSE [op |-> r.op]

NoOp == [op |-> "none"]

\* ------------------------------------------------------------------------
\* Specification Spec: the scheduling protocol, called in any order
\* ------------------------------------------------------------------------
Init ==
    /\ drivers \in DeviceSets(SeqsUpTo(Times, MaxQueue), {Plain})
    /\ endDispatch \in BOOLEAN
    /\ ret = NoOp
    /\ log = <<>>
    /\ prev = NoOp
    /\ pc = "peek"
    /\ consumed = <<>>

\* IODrivers::peekNextEvent is called: its result and its effect on the devices.
PeekCall ==
    \E r \in {peekNextEvent} :
       /\ ret' = [op |-> "peekNextEvent", cursor |-> r.value.cursor, event |-> r.value.event, compared |-> r.value.compared, fault |-> r.fault]
       /\ log' = r.calls
       /\ drivers' = ApplyCalls(drivers, r.calls)
       /\ prev' = Summary(ret)

\* consumeNextEvent is called through a cursor at index idx.
ConsumeCall(idx) ==
    \E calls \in {consumeNextEvent(idx)} :
       /\ ret' = [op |-> "consumeNextEvent", cursor |-> idx]
       /\ log' = calls
       /\ drivers' = ApplyCalls(drivers, calls)
       /\ prev' = Summary(ret)

\* A call of IODrivers::peekNextEvent.
PeekNextEvent == PeekCall /\ UNCHANGED <<endDispatch, pc, consumed>>

\* A call of consumeNextEvent through a cursor at the device index idx (a
\* cursor that refers to a device: from view[i], or returned by a peek).
ConsumeNextEvent(idx) == ConsumeCall(idx) /\ UNCHANGED <<endDispatch, pc, consumed>>

\* A call of IODrivers::onIdleCpu(interval); h[i] is what the idle handler
\* of device i returns in this call.
OnIdleCpu(h, interval) ==
    LET r == onIdleCpu([fn |-> "onIdleCpu", results |-> h], interval)
    IN /\ ret = NoOp
       /\ ret' = [op |-> "onIdleCpu", interval |-> interval, value |-> r.value, fault |-> r.fault]
       /\ log' = r.calls
       /\ drivers' = ApplyCalls(drivers, r.calls)
       /\ UNCHANGED <<endDispatch, prev, pc, consumed>>

Next ==
    \/ PeekNextEvent
    \/ \E idx \in Indices : ConsumeNextEvent(idx)

Spec == Init /\ [][Next]_vars

\* ------------------------------------------------------------------------
\* Specification TieSpec: peekNextEvent over device sets of up to
\* MaxTieDevices devices, each with at most one event pending.
\* ------------------------------------------------------------------------
TieInit ==
    /\ drivers \in SeqsUpTo({Device(q, FALSE, FALSE, FALSE) : q \in SeqsUpTo(Times, 1)}, MaxTieDevices)
    /\ endDispatch \in BOOLEAN
    /\ ret = NoOp
    /\ log = <<>>
    /\ prev = NoOp
    /\ pc = "peek"
    /\ consumed = <<>>

TieNext == PeekNextEvent

TieSpec == TieInit /\ [][TieNext]_vars

\* ------------------------------------------------------------------------
\* Specification IdleSpec: one idle pass over a device set.  The device set
\* is drawn, then what each idle handler returns and the interval.
\* ------------------------------------------------------------------------
IdleNext == \E h \in [Indices -> BOOLEAN], interval \in Intervals : OnIdleCpu(h, interval)

IdleSpec == Init /\ [][IdleNext]_vars

\* ------------------------------------------------------------------------
\* Specification SchedSpec: the scheduler loop of the caller
\* ------------------------------------------------------------------------
SchedInit ==
    /\ drivers \in DeviceSets({q \in SeqsUpTo(Times, MaxSchedQueue) : IsSorted(q)}, {Plain})
    /\ endDispatch \in BOOLEAN
    /\ ret = NoOp
    /\ log = <<>>
    /\ prev = NoOp
    /\ pc = "peek"
    /\ consumed = <<>>

\* The loop calls peekNextEvent; a null event ends the pass.
SchedPeek ==
    /\ pc = "peek"
    /\ PeekCall
    /\ pc' = IF isNull(ret'.event) THEN "done" ELSE "consume"
    /\ UNCHANGED <<endDispatch, consumed>>

\* The loop consumes through the cursor the peek returned; consumed records
\* the time of the event the device discards.
SchedConsume ==
    /\ pc = "consume"
    /\ ret.cursor \in Indices
    /\ ConsumeCall(ret.cursor)
    /\ consumed' = Append(consumed, DevicePeek(drivers[ret.cursor + 1], ret.cursor).time)
    /\ pc' = "peek"
    /\ UNCHANGED endDispatch

SchedNext == SchedPeek \/ SchedConsume

SchedSpec == SchedInit /\ [][SchedNext]_vars /\ WF_vars(SchedNext)

\* ------------------------------------------------------------------------
\* Specification ViewSpec: any() and all() over the views.  The device set,
\* then the view, the probe and the mode of one call are drawn; the call is
\* applied to them.
\* ------------------------------------------------------------------------
ViewInit ==
    /\ drivers \in DeviceSets({<<>>}, Kinds)
    /\ endDispatch \in BOOLEAN
    /\ ret = NoOp
    /\ log = <<>>
    /\ prev = NoOp
    /\ pc = "peek"
    /\ consumed = <<>>

\* A call of view.any(f, shortCircuit); h[i] is what f returns on device i.
Any(p, h, shortCircuit) ==
    LET r == any(p, [fn |-> "f", results |-> h], shortCircuit, NoArg)
    IN /\ ret = NoOp
       /\ ret' = [op |-> "any", view |-> p, f |-> h, defaulted |-> FALSE, shortCircuit |-> shortCircuit, value |-> r.value, fault |-> r.fault]
       /\ log' = r.calls
       /\ drivers' = ApplyCalls(drivers, r.calls)
       /\ UNCHANGED <<endDispatch, prev, pc, consumed>>

\* A call of view.all(f, shortCircuit).
All(p, h, shortCircuit) ==
    LET r == all(p, [fn |-> "f", results |-> h], shortCircuit, NoArg)
    IN /\ ret = NoOp
       /\ ret' = [op |-> "all", view |-> p, f |-> h, defaulted |-> FALSE, shortCircuit |-> shortCircuit, value |-> r.value, fault |-> r.fault]
       /\ log' = r.calls
       /\ drivers' = ApplyCalls(drivers, r.calls)
       /\ UNCHANGED <<endDispatch, prev, pc, consumed>>

\* A call of view.any(f), the mode left to its default.
AnyDefault(p, h) ==
    LET r == anyDefault(p, [fn |-> "f", results |-> h])
    IN /\ ret = NoOp
       /\ ret' = [op |-> "any", view |-> p, f |-> h, defaulted |-> TRUE, shortCircuit |-> DO_SHORT_CIRCUIT, value |-> r.value, fault |-> r.fault]
       /\ log' = r.calls
       /\ drivers' = ApplyCalls(drivers, r.calls)
       /\ UNCHANGED <<endDispatch, prev, pc, consumed>>

\* A call of view.all(f), the mode left to its default.
AllDefault(p, h) ==
    LET r == allDefault(p, [fn |-> "f", results |-> h])
    IN /\ ret = NoOp
       /\ ret' = [op |-> "all", view |-> p, f |-> h, defaulted |-> TRUE, shortCircuit |-> DO_SHORT_CIRCUIT, value |-> r.value, fault |-> r.fault]
       /\ log' = r.calls
       /\ drivers' = ApplyCalls(drivers, r.calls)
       /\ UNCHANGED <<endDispatch, prev, pc, consumed>>

\* A call of view.apply(f) with an uninterpreted f.
Apply(p) ==
    LET r == apply(p, "f", NoArg)
    IN /\ ret = NoOp
       /\ ret' = [op |-> "apply", view |-> p, fault |-> r.fault]
       /\ log' = r.calls
       /\ drivers' = ApplyCalls(drivers, r.calls)
       /\ UNCHANGED <<endDispatch, prev, pc, consumed>>

\* A call of view.begin().
Begin(p) ==
    /\ ret = NoOp
    /\ ret' = [op |-> "begin", view |-> p, idx |-> begin(p).idx, fault |-> begin(p).fault]
    /\ UNCHANGED <<drivers, log, endDispatch, prev, pc, consumed>>

\* The initial values a caller gives to reduce.
Initials == {<<"initial", 0>>, <<"initial", 1>>}

\* A call of view.reduce(f, initial) with an uninterpreted f.
Reduce(p, initial) ==
    LET r == reduce([fn |-> "f"], initial, p)
    IN /\ ret = NoOp
       /\ ret' = [op |-> "reduce", view |-> p, initial |-> initial, value |-> r.value, fault |-> r.fault]
       /\ log' = r.calls
       /\ drivers' = ApplyCalls(drivers, r.calls)
       /\ UNCHANGED <<endDispatch, prev, pc, consumed>>

\* A call of view.length().
Length(p) ==
    LET r == length(p)
    IN /\ ret = NoOp
       /\ ret' = [op |-> "length", view |-> p, value |-> r.value, fault |-> r.fault]
       /\ log' = r.calls
       /\ drivers' = ApplyCalls(drivers, r.calls)
       /\ UNCHANGED <<endDispatch, prev, pc, consumed>>

\* A call of view.empty().
Empty(p) ==
    LET r == empty(p)
    IN /\ ret = NoOp
       /\ ret' = [op |-> "empty", view |-> p, value |-> r.value, fault |-> r.fault]
       /\ UNCHANGED <<drivers, log, endDispatch, prev, pc, consumed>>

\* a.unionWith(b) is built and iterated: the indices a range-for over it
\* visits.
UnionWith(a, b) ==
    LET r == RangeFor(unionWith(a, b))
    IN /\ ret = NoOp
       /\ ret' = [op |-> "unionWith", a |-> a, b |-> b, view |-> unionWith(a, b), idxs |-> r.idxs, fault |-> r.fault]
       /\ UNCHANGED <<drivers, log, endDispatch, prev, pc, consumed>>

\* a.filter(b) is built and iterated.
Filter(a, b) ==
    LET r == RangeFor(filter(a, b))
    IN /\ ret = NoOp
       /\ ret' = [op |-> "filter", a |-> a, b |-> b, view |-> filter(a, b), idxs |-> r.idxs, fault |-> r.fault]
       /\ UNCHANGED <<drivers, log, endDispatch, prev, pc, consumed>>

ViewNext ==
    \/ \E p \in Views, h \in [Indices -> BOOLEAN], sc \in {NO_SHORT_CIRCUIT, DO_SHORT_CIRCUIT} : Any(p, h, sc)
    \/ \E p \in Views, h \in [Indices -> BOOLEAN], sc \in {NO_SHORT_CIRCUIT, DO_SHORT_CIRCUIT} : All(p, h, sc)
    \/ \E p \in Views, h \in [Indices -> BOOLEAN] : AnyDefault(p, h)
    \/ \E p \in Views, h \in [Indices -> BOOLEAN] : AllDefault(p, h)
    \/ \E p \in Views, initial \in Initials : Reduce(p, initial)
    \/ \E p \in Views : Length(p)
    \/ \E p \in Views : Empty(p)
    \/ \E a \in Views, b \in Views : UnionWith(a, b)
    \/ \E a \in Views, b \in Views : Filter(a, b)
    \/ \E p \in Views : Apply(p)
    \/ \E p \in Views : Begin(p)

ViewSpec == ViewInit /\ [][ViewNext]_vars

\* ------------------------------------------------------------------------
\* Specification SetSpec: the heater targets and the fan duty are set, in
\* any order and any number of times.
\* ------------------------------------------------------------------------
Temps == {"TempLow", "TempHigh"}
Duties == {"DutyHalf", "DutyFull"}

\* A setter was called: its result r and its effect on the devices.
SetCall(op, arg, r) ==
    /\ ret' = [op |-> op, arg |-> arg, fault |-> r.fault]
    /\ log' = r.calls
    /\ drivers' = ApplyCalls(drivers, r.calls)
    /\ UNCHANGED <<endDispatch, prev, pc, consumed>>

\* A call of IODrivers::setHotendTemp(temp).
SetHotendTemp(temp) == SetCall("setHotendTemp", temp, setHotendTemp(temp))

\* A call of IODrivers::setBedTemp(temp).
SetBedTemp(temp) == SetCall("setBedTemp", temp, setBedTemp(temp))

\* A call of IODrivers::setFanDutyCycle(duty).
SetFanDutyCycle(duty) == SetCall("setFanDutyCycle", duty, setFanDutyCycle(duty))

SetNext ==
    \/ \E temp \in Temps : SetHotendTemp(temp)
    \/ \E temp \in Temps : SetBedTemp(temp)
    \/ \E duty \in Duties : SetFanDutyCycle(duty)

SetSpec == ViewInit /\ [][SetNext]_vars

\* ------------------------------------------------------------------------
\* Specification EventSpec: one event, constructed and then offset any
\* number of times.  ret.event is the event, ret.before the event before
\* the last offset, prev the state of ret before it.
\* ------------------------------------------------------------------------
\* The times the event is followed over.
TimeRange == (0 - 2 * MaxTime)..(2 * MaxTime)

\* The durations given to offset (signed) and the nanoseconds given to
\* offsetNano (unsigned).
Durations == (0 - MaxTime)..MaxTime
Nanos == 0..MaxTime

EventInit ==
    /\ \E t \in 0..MaxTime, stepperNum \in 0..NULL_STEPPER_ID, isForward \in BOOLEAN :
          ret = [op |-> "Event", arg |-> 0, event |-> Event(t, stepperNum, isForward), before |-> Event(t, stepperNum, isForward)]
    /\ drivers = <<>>
    /\ endDispatch = FALSE
    /\ log = <<>>
    /\ prev = NoOp
    /\ pc = "peek"
    /\ consumed = <<>>

\* event.offset(d)
Offset(d) ==
    /\ time(offset(ret.event, d)) \in TimeRange
    /\ ret' = [op |-> "offset", arg |-> d, event |-> offset(ret.event, d), before |-> ret.event]
    /\ prev' = ret
    /\ UNCHANGED <<drivers, endDispatch, log, pc, consumed>>

\* event.offsetNano(nsec)
OffsetNano(nsec) ==
    /\ time(offsetNano(ret.event, nsec)) \in TimeRange
    /\ ret' = [op |-> "offsetNano", arg |-> nsec, event |-> offsetNano(ret.event, nsec), before |-> ret.event]
    /\ prev' = ret
    /\ UNCHANGED <<drivers, endDispatch, log, pc, consumed>>

EventNext ==
    \/ \E d \in Durations : Offset(d)
    \/ \E nsec \in Nanos : OffsetNano(nsec)

EventSpec == EventInit /\ [][EventNext]_vars

\* ------------------------------------------------------------------------
\* Specification CursorSpec: one cursor of a view, obtained from begin(),
\* end() or view[i] and then advanced by ++ and + for as long as it has not
\* hit the assertion.  ret is the cursor after the last operation, prev the
\* cursor before it.
\* ------------------------------------------------------------------------
Cursor(op, p, arg, it) == [op |-> op, view |-> p, arg |-> arg, idx |-> it.idx, fault |-> it.fault, evals |-> it.evals]

IsCursor(r) == r.op \in {"begin", "end", "[]", "++", "+"}

\* The numbers given to view[i] and to cursor + n: up to past the end.
Offsets == 0..(size + 1)

CursorInit ==
    /\ drivers \in SeqsUpTo({Device(<<>>, k[1], k[2], k[3]) : k \in Kinds}, MaxCursorDevices)
    /\ endDispatch \in BOOLEAN
    /\ ret = NoOp
    /\ log = <<>>
    /\ prev = NoOp
    /\ pc = "peek"
    /\ consumed = <<>>

\* view.begin()
CursorBegin(p) ==
    /\ ret = NoOp
    /\ ret' = Cursor("begin", p, NoArg, begin(p))
    /\ UNCHANGED <<drivers, log, endDispatch, prev, pc, consumed>>

\* view.end()
CursorEnd(p) ==
    /\ ret = NoOp
    /\ ret' = Cursor("end", p, NoArg, end(p))
    /\ UNCHANGED <<drivers, log, endDispatch, prev, pc, consumed>>

\* view[i]
CursorIndex(p, i) ==
    /\ ret = NoOp
    /\ ret' = Cursor("[]", p, i, Index(p, i))
    /\ UNCHANGED <<drivers, log, endDispatch, prev, pc, consumed>>

\* ++cursor
CursorIncrement ==
    /\ IsCursor(ret)
    /\ ~ret.fault
    /\ ret' = Cursor("++", ret.view, NoArg, Increment(ret.view, ret.idx, <<>>))
    /\ prev' = ret
    /\ UNCHANGED <<drivers, log, endDispatch, pc, consumed>>

\* cursor = cursor + n
CursorPlus(n) ==
    /\ IsCursor(ret)
    /\ ~ret.fault
    /\ ret' = Cursor("+", ret.view, n, Plus(ret.view, Pos(ret.idx, FALSE, <<>>), n))
    /\ prev' = ret
    /\ UNCHANGED <<drivers, log, endDispatch, pc, consumed>>

CursorNext ==
    \/ \E p \in Views : CursorBegin(p)
    \/ \E p \in Views : CursorEnd(p)
    \/ \E p \in Views, i \in Offsets : CursorIndex(p, i)
    \/ CursorIncrement
    \/ \E n \in Offsets : CursorPlus(n)

CursorSpec == CursorInit /\ [][CursorNext]_vars

\* ------------------------------------------------------------------------
\* Properties of the scheduling protocol
\* ------------------------------------------------------------------------
\* The devices that have an event pending.
Pending == {i \in Indices : drivers[i + 1].events # <<>>}

\* C1: over a non-empty device set, peekNextEvent returns a non-null event
\* whenever some device has an event pending; its time is the minimum over
\* the pending events and the cursor is at a device whose peek returns that
\* event; the returned event is null iff no device has an event pending.
C1_PeekReturnsEarliest ==
    (ret.op = "peekNextEvent" /\ size > 0) =>
        /\ ~ret.fault
        /\ Pending # {} =>
              /\ ~isNull(ret.event)
              /\ \A i \in Pending : ret.event.time <= Head(drivers[i + 1].events)
              /\ ret.cursor \in Pending
              /\ DevicePeek(drivers[ret.cursor + 1], ret.cursor) = ret.event
        /\ isNull(ret.event) <=> Pending = {}

\* C1 witness: two devices, the second with the earlier event, and the peek
\* returned the second.
C1_Witness ==
    /\ ret.op = "peekNextEvent"
    /\ size = 2
    /\ drivers[1].events = <<2>>
    /\ drivers[2].events = <<1>>
    /\ ret.cursor = 1
    /\ ret.event.time = 1

\* C2: when no device has an event pending, peekNextEvent returns the end
\* cursor (index = size) and the null event, for every size of device set.
C2_NonePendingReturnsEnd ==
    (ret.op = "peekNextEvent" /\ Pending = {}) => (ret.cursor = size /\ isNull(ret.event))

\* The calls of one pass that peeks every device once, in index order.
PeekEachOnce == [k \in 1..size |-> Call("peekNextEvent", k - 1, NoArg, DevicePeek(drivers[k], k - 1))]

\* C3: peekNextEvent is idempotent and pure: two calls in a row return the
\* same cursor and event; a call peeks each device exactly once, consumes
\* nothing and leaves every device as it was.
C3_PeekIdempotentPure ==
    /\ [](ret.op = "peekNextEvent" => log = PeekEachOnce)
    /\ []((ret.op = "peekNextEvent" /\ prev.op = "peekNextEvent") => (ret.cursor = prev.cursor /\ ret.event = prev.event))
    /\ [][ret'.op = "peekNextEvent" => drivers' = drivers]_vars

\* C3 witness: two calls in a row over two devices with events pending.
C3_Witness ==
    /\ ret.op = "peekNextEvent"
    /\ prev.op = "peekNextEvent"
    /\ size = 2
    /\ Pending = {0, 1}
    /\ ~isNull(ret.event)

\* C4: consumeNextEvent through a cursor at index i calls consume on the
\* device at i and on no other: every other device is unchanged.
C4_ConsumeOnlyAtCursor ==
    [][ret'.op = "consumeNextEvent" =>
          /\ log' = <<Call("consumeNextEvent", ret'.cursor, NoArg, NoArg)>>
          /\ Len(drivers') = Len(drivers)
          /\ drivers'[ret'.cursor + 1] = DeviceConsume(drivers[ret'.cursor + 1])
          /\ \A j \in Indices \ {ret'.cursor} : drivers'[j + 1] = drivers[j + 1]]_vars

\* C4 witness: the second device's pending event was peeked, then consumed,
\* while the first device still has its event pending.
C4_Witness ==
    /\ ret.op = "consumeNextEvent"
    /\ ret.cursor = 1
    /\ prev.op = "peekNextEvent"
    /\ prev.cursor = 1
    /\ ~isNull(prev.event)
    /\ drivers[2].events = <<>>
    /\ drivers[1].events # <<>>

\* The number of events pending over all devices.
PendingCount ==
    LET F[k \in 0..size] == IF k = 0 THEN 0 ELSE F[k - 1] + Len(drivers[k].events)
    IN F[size]

\* C5: under the scheduler loop, with every queue in non-decreasing time
\* order, events are consumed in non-decreasing time order, no pending
\* event is lost (each is pending or consumed), and the loop reaches a pass
\* in which nothing is pending any more and peekNextEvent returns the null
\* event.
C5_SchedulerOrderAndProgress ==
    /\ [](IsSorted(consumed))
    /\ [][Len(consumed') + PendingCount' = Len(consumed) + PendingCount]_vars
    /\ <>(pc = "done" /\ Pending = {} /\ ret.op = "peekNextEvent" /\ isNull(ret.event))

\* C5 witness: the loop has ended after consuming four events of two
\* devices, the first earlier than the last.
C5_Witness ==
    /\ pc = "done"
    /\ size = 2
    /\ Len(consumed) = 4
    /\ consumed[1] < consumed[4]

\* The devices whose pending event has the least time of all.
Earliest == {i \in Pending : \A j \in Pending : Head(drivers[i + 1].events) <= Head(drivers[j + 1].events)}

\* C20: when several devices' pending events share the least time,
\* peekNextEvent returns the cursor of the one of lowest index, also when
\* devices of lower index with nothing pending come before it.
C20_TieLowestIndexWins ==
    (ret.op = "peekNextEvent" /\ Pending # {}) =>
        /\ ret.cursor \in Earliest
        /\ \A i \in Earliest : ret.cursor <= i
        /\ ret.event = DevicePeek(drivers[ret.cursor + 1], ret.cursor)

\* C20 witness: of three devices the first has nothing pending, the second
\* and the third have events at the same time, and the peek returned the
\* second.
C20_Witness ==
    /\ ret.op = "peekNextEvent"
    /\ size = 3
    /\ drivers[1].events = <<>>
    /\ drivers[2].events = <<1>>
    /\ drivers[3].events = <<1>>
    /\ ret.cursor = 1
    /\ ret.event = Event(1, 1, TRUE)

\* C21: during peekNextEvent the time of a null event is never read: the
\* comparison curEvt.time() < best.time() is evaluated only when the
\* device's event and the running best are both non-null, for every
\* combination of devices with and without an event pending.
C21_NullTimeNeverRead ==
    ret.op = "peekNextEvent" =>
        \A k \in 1..Len(ret.compared) : ~isNull(ret.compared[k].cur) /\ ~isNull(ret.compared[k].best)

\* C21 witness: of three devices the first has nothing pending, the second
\* an event at 2 and the third one at 1: the only comparison made is of
\* the third's event with the second's.
C21_Witness ==
    /\ ret.op = "peekNextEvent"
    /\ size = 3
    /\ drivers[1].events = <<>>
    /\ drivers[2].events = <<2>>
    /\ drivers[3].events = <<1>>
    /\ ret.compared = <<[cur |-> Event(1, 2, TRUE), best |-> Event(2, 1, TRUE)]>>
    /\ ret.cursor = 2

\* ------------------------------------------------------------------------
\* Properties of the idle pass
\* ------------------------------------------------------------------------
\* C6: onIdleCpu returns true iff the idle handler of at least one device
\* returned true in that call; it returns false for the empty device set.
C6_IdleResultIsOr ==
    ret.op = "onIdleCpu" =>
        /\ ~ret.fault
        /\ ret.value <=> (\E k \in 1..Len(log) : log[k].result)
        /\ size = 0 => ret.value = FALSE

\* C6 witness: of two devices the first handler returned true, the second
\* false, and the result is true.
C6_Witness ==
    /\ ret.op = "onIdleCpu"
    /\ size = 2
    /\ Len(log) = 2
    /\ log[1].result
    /\ ~log[2].result
    /\ ret.value

\* C7: a call of onIdleCpu calls the idle handler of every device exactly
\* once, in ascending index order, each with the interval given, whatever
\* the earlier handlers returned.
C7_IdleCallsEveryDevice ==
    ret.op = "onIdleCpu" =>
        /\ Len(log) = size
        /\ \A k \in 1..Len(log) : log[k].fn = "onIdleCpu" /\ log[k].idx = k - 1 /\ log[k].arg = ret.interval

\* C7 witness: the first handler returned true and the second was still
\* called.
C7_Witness ==
    /\ ret.op = "onIdleCpu"
    /\ size = 2
    /\ Len(log) = 2
    /\ log[1].result
    /\ log[2].idx = 1

\* ------------------------------------------------------------------------
\* Properties of any() and all()
\* ------------------------------------------------------------------------
\* The devices a view selects.
Matching(p) == {i \in Indices : Pred(p, i)}

IsAnyAll == ret.op \in {"any", "all"}

\* C8: without short-circuit, any and all call f on every device matching
\* the view exactly once and on no other device, whatever f returns.
C8_NoShortCircuitCallsAllMatching ==
    (IsAnyAll /\ ~ret.defaulted /\ ret.shortCircuit = NO_SHORT_CIRCUIT) =>
        /\ Len(log) = Cardinality(Matching(ret.view))
        /\ \A k \in 1..Len(log) : log[k].fn = "f" /\ log[k].idx \in Matching(ret.view)
        /\ \A j, k \in 1..Len(log) : j < k => log[j].idx < log[k].idx

\* C8 witness: any without short-circuit over the heaters of two
\* devices, both heaters; f returned true on the first call and was still
\* called on the second.
C8_Witness ==
    /\ ret.op = "any"
    /\ ret.shortCircuit = NO_SHORT_CIRCUIT
    /\ ret.view = heaters
    /\ size = 2
    /\ Matching(heaters) = {0, 1}
    /\ Len(log) = 2
    /\ log[1].result

\* C9: with short-circuit, asked for or by default in the one-argument form,
\* any does not call f after a call of f returned true, and all does not
\* call f after a call of f returned false.
C9_ShortCircuitStops ==
    (IsAnyAll /\ (ret.defaulted \/ ret.shortCircuit = DO_SHORT_CIRCUIT)) =>
        \A k \in 1..(Len(log) - 1) : log[k].result = (ret.op = "all")

\* C9 witness: any(f) in the one-argument form over two matching devices
\* with f true on both made one call only.
C9_Witness ==
    /\ ret.op = "any"
    /\ ret.defaulted
    /\ size = 2
    /\ Matching(ret.view) = {0, 1}
    /\ ret.f[0] /\ ret.f[1]
    /\ Len(log) = 1

\* C10: any returns true iff f holds of some device the view selects, all
\* iff f holds of every device the view selects, in both modes alike; over
\* an empty view any returns false and all returns true.
C10_AnyAllValue ==
    IsAnyAll =>
        /\ ~ret.fault
        /\ ret.op = "any" => ret.value = (\E i \in Matching(ret.view) : ret.f[i])
        /\ ret.op = "all" => ret.value = (\A i \in Matching(ret.view) : ret.f[i])
        /\ any(ret.view, [fn |-> "f", results |-> ret.f], DO_SHORT_CIRCUIT, NoArg).value = any(ret.view, [fn |-> "f", results |-> ret.f], NO_SHORT_CIRCUIT, NoArg).value
        /\ all(ret.view, [fn |-> "f", results |-> ret.f], DO_SHORT_CIRCUIT, NoArg).value = all(ret.view, [fn |-> "f", results |-> ret.f], NO_SHORT_CIRCUIT, NoArg).value

\* ------------------------------------------------------------------------
\* Properties of the whole-view operations
\* ------------------------------------------------------------------------
\* The elements of a finite set of numbers in ascending order.
RECURSIVE Ascending(_)
Ascending(S) == IF S = {} THEN <<>> ELSE LET m == CHOOSE x \in S : \A y \in S : x <= y IN <<m>> \o Ascending(S \ {m})

\* f(...f(f(initial, d_1), d_2)..., d_n) for the sequence ds, as a term.
FoldTerm(initial, ds) ==
    LET F[k \in 0..Len(ds)] == IF k = 0 THEN initial ELSE <<"f", F[k - 1], ds[k]>>
    IN F[Len(ds)]

\* C11: reduce(f, initial) over a view returns the left fold of f over
\* exactly the devices the view's predicate selects, in ascending index
\* order, each visited once; over an empty view it returns initial without
\* calling f, over a singleton view f(initial, d_0).
C11_ReduceIsLeftFold ==
    ret.op = "reduce" =>
        /\ ~ret.fault
        /\ ret.value = FoldTerm(ret.initial, Ascending(Matching(ret.view)))
        /\ log = [k \in 1..Cardinality(Matching(ret.view)) |-> Call("f", Ascending(Matching(ret.view))[k], NoArg, NoArg)]
        /\ Matching(ret.view) = {} => (ret.value = ret.initial /\ log = <<>>)
        /\ \A i \in Indices : Matching(ret.view) = {i} => ret.value = <<"f", ret.initial, i>>

\* The statement of C11 for the calls that return: it holds of these.
C11_ExceptFault ==
    (ret.op = "reduce" /\ ~ret.fault) =>
        /\ ret.value = FoldTerm(ret.initial, Ascending(Matching(ret.view)))
        /\ log = [k \in 1..Cardinality(Matching(ret.view)) |-> Call("f", Ascending(Matching(ret.view))[k], NoArg, NoArg)]

\* The calls that hit the assertion: over the empty device set only, with a
\* predicate that reads a capability, when the dispatch at the end index
\* yields false.
FaultOnlyOnEmptySet == (ret # NoOp /\ ret.fault) => (size = 0 /\ ~endDispatch /\ ret.view # NoPredicate)

\* C12: length() of a view is the number of device indices its predicate
\* holds of, and empty() is true iff length() is 0, that is iff no device
\* matches, whatever the device set and the predicate.
C12_LengthCountsMatching ==
    /\ ret.op = "length" => (~ret.fault /\ ret.value = Cardinality(Matching(ret.view)))
    /\ ret.op = "empty" =>
          /\ ~ret.fault
          /\ ret.value <=> (~length(ret.view).fault /\ length(ret.view).value = 0)
          /\ ret.value <=> Matching(ret.view) = {}

\* The statement of C12 for the calls that return: it holds of these.
C12_ExceptFault ==
    /\ (ret.op = "length" /\ ~ret.fault) => ret.value = Cardinality(Matching(ret.view))
    /\ (ret.op = "empty" /\ ~ret.fault) =>
          /\ ret.value <=> (~length(ret.view).fault /\ length(ret.view).value = 0)
          /\ ret.value <=> Matching(ret.view) = {}

\* C13: unionWith and filter are commutative and associative in the devices
\* they select: a range-for over a.unionWith(b) visits the same indices as
\* one over b.unionWith(a), one over (a.unionWith(b)).unionWith(c) the same
\* as one over a.unionWith(b.unionWith(c)), and likewise for filter;
\* unionWith selects exactly the indices of a or b, filter those of both,
\* in ascending order, each once.
C13_UnionFilterAlgebra ==
    /\ ret.op = "unionWith" =>
          /\ ret.idxs = Ascending(Matching(ret.a) \cup Matching(ret.b))
          /\ RangeFor(unionWith(ret.b, ret.a)) = RangeFor(ret.view)
          /\ \A c \in Views : RangeFor(unionWith(ret.view, c)) = RangeFor(unionWith(ret.a, unionWith(ret.b, c)))
    /\ ret.op = "filter" =>
          /\ ret.idxs = Ascending(Matching(ret.a) \cap Matching(ret.b))
          /\ RangeFor(filter(ret.b, ret.a)) = RangeFor(ret.view)
          /\ \A c \in Views : RangeFor(filter(ret.view, c)) = RangeFor(filter(ret.a, filter(ret.b, c)))

\* C13 witness: the union of the fans and the hotends of a hotend followed
\* by a fan selects both devices, the hotend first.
C13_Witness ==
    /\ ret.op = "unionWith"
    /\ ret.a = GenericIsFan
    /\ ret.b = GenericIsHotend
    /\ size = 2
    /\ Matching(ret.a) = {1}
    /\ Matching(ret.b) = {0}
    /\ ret.idxs = <<0, 1>>

\* C14: heaters() selects exactly the device indices hotends() or
\* heatedBeds() select, each once even for a device that is both, so that
\* heaters().length() is their number, and 0 for a device set with no
\* hotend and no heated bed.
C14_HeatersIsUnion ==
    (ret.op = "length" /\ ret.view = heaters) =>
        /\ ~ret.fault
        /\ RangeFor(heaters).idxs = Ascending(Matching(hotends) \cup Matching(heatedBeds))
        /\ ret.value = Cardinality(Matching(hotends) \cup Matching(heatedBeds))
        /\ (Matching(hotends) = {} /\ Matching(heatedBeds) = {}) => ret.value = 0

\* The statement of C14 for the calls that return: it holds of these.
C14_ExceptFault ==
    (ret.op = "length" /\ ret.view = heaters /\ ~ret.fault) =>
        /\ RangeFor(heaters).idxs = Ascending(Matching(hotends) \cup Matching(heatedBeds))
        /\ ret.value = Cardinality(Matching(hotends) \cup Matching(heatedBeds))

\* ------------------------------------------------------------------------
\* Properties of the cursor
\* ------------------------------------------------------------------------
\* The least index above i that view p selects, or size if there is none.
NextMatch(p, i) ==
    IF \E j \in Matching(p) : j > i
    THEN CHOOSE j \in Matching(p) : j > i /\ \A k \in Matching(p) : k > i => j <= k
    ELSE size

\* C15: incrementing a cursor of view P at an index i < size moves it to the
\* least index j > i whose device satisfies P, or to size if there is none:
\* no matching index is skipped, and the cursor never rests on a
\* non-matching index below size after an increment.
C15_IncrementToNextMatch ==
    (ret.op = "++" /\ prev.idx < size) =>
        /\ ~ret.fault
        /\ ret.idx = NextMatch(ret.view, prev.idx)
        /\ ret.idx < size => ret.idx \in Matching(ret.view)

\* C15 witness: a cursor over the fans of a fan, a non-fan and a fan stood
\* at the first and was incremented to the third.
C15_Witness ==
    /\ ret.op = "++"
    /\ ret.view = fans
    /\ size = 3
    /\ Matching(fans) = {0, 2}
    /\ prev.idx = 0
    /\ ret.idx = 2

\* The increments a cursor of view p at index x can make before it is at
\* the end.
Steps(p, x) == IF x = size THEN 0 ELSE Cardinality({j \in Matching(p) : j > x}) + 1

\* C16: incrementing a cursor whose index is size hits the assertion: the
\* increment does not complete and the index is never moved beyond size;
\* view[i] and cursor + n hit it exactly when they have to increment a
\* cursor that is at the end.
C16_IncrementAtEndFaults ==
    IsCursor(ret) =>
        /\ ret.idx <= size
        /\ ret.fault => ret.idx = size
        /\ ret.op = "++" => (ret.fault <=> prev.idx = size)
        /\ ret.op = "+" => (ret.fault <=> ret.arg > Steps(ret.view, prev.idx))
        /\ (ret.op = "[]" /\ ~begin(ret.view).fault) => (ret.fault <=> ret.arg > Steps(ret.view, begin(ret.view).idx))

\* C16 witness: the end cursor of two devices was incremented and hit the
\* assertion, its index still 2.
C16_Witness ==
    /\ ret.op = "++"
    /\ size = 2
    /\ prev.op = "end"
    /\ prev.idx = 2
    /\ ret.fault
    /\ ret.idx = 2

\* C17: the index of a cursor obtained from begin(), end() or view[i] and
\* advanced by increments is always in 0..size and never decreases; every
\* increment that completes makes it strictly greater.
C17_IndexBoundedMonotonic ==
    IsCursor(ret) =>
        /\ ret.idx \in 0..size
        /\ ret.op \in {"++", "+"} => ret.idx >= prev.idx
        /\ (ret.op = "++" /\ ~ret.fault) => ret.idx > prev.idx
        /\ (ret.op = "+" /\ ~ret.fault /\ ret.arg > 0) => ret.idx > prev.idx

\* C17 witness: a cursor over three devices was incremented twice, from 0
\* to 1 and from 1 to 2.
C17_Witness ==
    /\ ret.op = "++"
    /\ prev.op = "++"
    /\ size = 3
    /\ prev.idx = 1
    /\ ret.idx = 2
    /\ ~ret.fault

\* ------------------------------------------------------------------------
\* Properties of the setters
\* ------------------------------------------------------------------------
\* The calls of capability f with argument arg on exactly the devices of
\* the set S, in ascending order.
CallsOn(S, f, arg) == [k \in 1..Cardinality(S) |-> Call(f, Ascending(S)[k], arg, NoArg)]

\* The setter made the calls of f on exactly the devices of S; these have
\* the value given in field fld, and every other device is as it was.
SetsExactly(S, f, fld) ==
    /\ log' = CallsOn(S, f, ret'.arg)
    /\ Len(drivers') = Len(drivers)
    /\ \A j \in S : drivers'[j + 1] = [drivers[j + 1] EXCEPT ![fld] = ret'.arg]
    /\ \A j \in Indices \ S : drivers'[j + 1] = drivers[j + 1]

\* C18: setHotendTemp(t) calls setTargetTemperature(t) on every device that
\* is a hotend and on no other, setBedTemp(t) on exactly the heated beds,
\* setFanDutyCycle(d) calls setFanDutyCycle(d) on exactly the fans; every
\* device outside the targeted subset is left as it was.
C18_SettersTargetSubset ==
    [][/\ ret'.op = "setHotendTemp" => SetsExactly({i \in Indices : drivers[i + 1].isHotend}, "setTargetTemperature", "targetTemperature")
       /\ ret'.op = "setBedTemp" => SetsExactly({i \in Indices : drivers[i + 1].isHeatedBed}, "setTargetTemperature", "targetTemperature")
       /\ ret'.op = "setFanDutyCycle" => SetsExactly({i \in Indices : drivers[i + 1].isFan}, "setFanDutyCycle", "fanDutyCycle")]_vars

\* C18 witness: of a fan and a hotend, the hotend was given the high
\* target and the fan has no target; the fan was given its duty before.
C18_Witness ==
    /\ ret.op = "setHotendTemp"
    /\ size = 2
    /\ drivers[1].isFan /\ ~drivers[1].isHotend
    /\ drivers[2].isHotend
    /\ drivers[2].targetTemperature = "TempHigh"
    /\ drivers[1].targetTemperature = "TempOff"
    /\ drivers[1].fanDutyCycle = "DutyFull"
    /\ drivers[2].fanDutyCycle = "DutyOff"
    /\ log = <<Call("setTargetTemperature", 1, "TempHigh", NoArg)>>

\* ------------------------------------------------------------------------
\* Properties of Event
\* ------------------------------------------------------------------------
IsOffset(r) == r.op \in {"offset", "offsetNano"}

\* The duration of an offset, in nanoseconds.
OffsetNanos(r) == IF r.op = "offset" THEN r.arg * NanosPerTick ELSE r.arg

C22_PredicateNeverAtEnd ==
    (IsCursor(ret) /\ ret.op \in {"begin", "++"}) =>
        \A k \in 1..Len(ret.evals) : ret.evals[k] < size

\* The statement of C22 for the evaluations that are not the last of an
\* operation: it holds of these, and of the last one when the cursor comes
\* to rest below size.
C22_ExceptLast ==
    (IsCursor(ret) /\ ret.op \in {"begin", "++"}) =>
        /\ \A k \in 1..(Len(ret.evals) - 1) : ret.evals[k] < size
        /\ (~ret.fault /\ ret.idx < size) => \A k \in 1..Len(ret.evals) : ret.evals[k] < size

\* C23: the whole-view operations never hit the illegal-advance assertion
\* and end after at most size increments: over every device set, the empty
\* one too, and every predicate, one no device satisfies too, begin(),
\* empty(), length(), apply, reduce, any and all complete, and an empty
\* view gives empty() true and length() 0.
C23_WholeViewNeverFaults ==
    ret.op \in {"begin", "empty", "length", "apply", "reduce", "any", "all"} =>
        /\ ~ret.fault
        /\ Len(RangeFor(ret.view).idxs) <= size
        /\ (ret.op = "empty" /\ Matching(ret.view) = {}) => ret.value
        /\ (ret.op = "length" /\ Matching(ret.view) = {}) => ret.value = 0

\* The statement of C23 for the device sets that are not empty: it holds
\* of these.
C23_ExceptEmptySet ==
    (ret.op \in {"begin", "empty", "length", "apply", "reduce", "any", "all"} /\ size > 0) =>
        /\ ~ret.fault
        /\ Len(RangeFor(ret.view).idxs) <= size
        /\ (ret.op = "empty" /\ Matching(ret.view) = {}) => ret.value
        /\ (ret.op = "length" /\ Matching(ret.view) = {}) => ret.value = 0

====
